---- MODULE Spec2Model ----
(***************************************************************************)
(* SchemaGenie: the Index page's submission logic (handleGenerate, the     *)
(* Generate button, the diagram chart prop) and the generation endpoint    *)
(* (handleGenerateSchema), both in client/pages/Index.tsx.                 *)
(*                                                                         *)
(* JSON objects are records: a key that is absent from the object is       *)
(* absent from the record's DOMAIN.  Texts that the code only stores and   *)
(* compares are strings; texts the code transforms character by character  *)
(* (the diagram source, its base64 form, the data URI) are sequences of    *)
(* character codes.                                                        *)
(***************************************************************************)
EXTENDS Integers, Sequences, FiniteSets, TLC

(* ------------------------------------------------------------------ *)
(* Bounds of the model                                                 *)
(* ------------------------------------------------------------------ *)

\* Requests in progress at the same time.
MaxReq == 2

\* Changes of inputs and options the user makes on the page.
MaxEdits == 3

\* File reads in progress at the same time.
MaxReads == 1

(* ------------------------------------------------------------------ *)
(* Canned content of the endpoint                                      *)
(* ------------------------------------------------------------------ *)

mockSchemas ==
  [prisma |->
     "generator client {\n  provider = \"prisma-client-js\"\n}\n\ndatasource db {\n  provider = \"postgresql\"\n  url      = env(\"DATABASE_URL\")\n}\n\nmodel User {\n  id        String   @id @default(cuid())\n  email     String   @unique\n  name      String?\n  createdAt DateTime @default(now())\n  updatedAt DateTime @updatedAt\n  posts     Post[]\n  profile   Profile?\n}\n\nmodel Profile {\n  id     String  @id @default(cuid())\n  bio    String?\n  avatar String?\n  userId String  @unique\n  user   User    @relation(fields: [userId], references: [id])\n}\n\nmodel Post {\n  id        String   @id @default(cuid())\n  title     String\n  content   String?\n  published Boolean  @default(false)\n  authorId  String\n  author    User     @relation(fields: [authorId], references: [id])\n  createdAt DateTime @default(now())\n  updatedAt DateTime @updatedAt\n}",
   sql |->
     "CREATE TABLE users (\n  id SERIAL PRIMARY KEY,\n  email VARCHAR(255) UNIQUE NOT NULL,\n  name VARCHAR(255),\n  created_at TIMESTAMP DEFAULT NOW(),\n  updated_at TIMESTAMP DEFAULT NOW()\n);\n\nCREATE TABLE profiles (\n  id SERIAL PRIMARY KEY,\n  bio TEXT,\n  avatar VARCHAR(255),\n  user_id INTEGER UNIQUE REFERENCES users(id) ON DELETE CASCADE\n);\n\nCREATE TABLE posts (\n  id SERIAL PRIMARY KEY,\n  title VARCHAR(255) NOT NULL,\n  content TEXT,\n  published BOOLEAN DEFAULT false,\n  author_id INTEGER REFERENCES users(id) ON DELETE CASCADE,\n  created_at TIMESTAMP DEFAULT NOW(),\n  updated_at TIMESTAMP DEFAULT NOW()\n);",
   mongodb |->
     "{\n  \"users\": {\n    \"_id\": \"ObjectId\",\n    \"email\": \"String (unique, required)\",\n    \"name\": \"String (optional)\",\n    \"profile\": {\n      \"bio\": \"String (optional)\",\n      \"avatar\": \"String (optional)\"\n    },\n    \"createdAt\": \"Date\",\n    \"updatedAt\": \"Date\"\n  },\n  \"posts\": {\n    \"_id\": \"ObjectId\",\n    \"title\": \"String (required)\",\n    \"content\": \"String (optional)\",\n    \"published\": \"Boolean (default: false)\",\n    \"authorId\": \"ObjectId (ref: users._id)\",\n    \"createdAt\": \"Date\",\n    \"updatedAt\": \"Date\"\n  }\n}",
   firebase |->
     "{\n  \"users\": {\n    \"rules\": {\n      \"$uid\": {\n        \".read\": \"$uid === auth.uid\",\n        \".write\": \"$uid === auth.uid\",\n        \".validate\": \"newData.hasChildren(['email', 'createdAt'])\"\n      }\n    },\n    \"structure\": {\n      \"email\": \"string\",\n      \"name\": \"string\",\n      \"profile\": {\n        \"bio\": \"string\",\n        \"avatar\": \"string\"\n      },\n      \"createdAt\": \"timestamp\",\n      \"updatedAt\": \"timestamp\"\n    }\n  },\n  \"posts\": {\n    \"rules\": {\n      \".read\": true,\n      \"$postId\": {\n        \".write\": \"auth != null && auth.uid == data.child('authorId').val()\"\n      }\n    },\n    \"structure\": {\n      \"title\": \"string\",\n      \"content\": \"string\",\n      \"published\": \"boolean\",\n      \"authorId\": \"string\",\n      \"createdAt\": \"timestamp\",\n      \"updatedAt\": \"timestamp\"\n    }\n  }\n}"]

mockAPIRoutes ==
  "// User Routes\nPOST   /api/users                 - Create user\nGET    /api/users/:id             - Get user by ID\nPUT    /api/users/:id             - Update user\nDELETE /api/users/:id             - Delete user\nGET    /api/users/:id/profile     - Get user profile\n\n// Post Routes\nGET    /api/posts                 - Get all posts\nPOST   /api/posts                 - Create post\nGET    /api/posts/:id             - Get post by ID\nPUT    /api/posts/:id             - Update post\nDELETE /api/posts/:id             - Delete post\nGET    /api/posts/user/:userId    - Get posts by user\n\n// Authentication\nPOST   /api/auth/login            - User login\nPOST   /api/auth/logout           - User logout\nPOST   /api/auth/register         - User registration\nGET    /api/auth/me               - Get current user"

mockExplanation ==
  "Based on your frontend code analysis, I've identified the following data relationships and designed an optimal schema:\n\n**Key Entities Identified:**\n- **User**: Core entity representing app users with authentication\n- **Profile**: Extended user information with bio and avatar\n- **Post**: Content created by users with publishing status\n\n**Design Decisions:**\n1. **Normalized Structure**: Separated profile from user table to reduce data redundancy\n2. **Foreign Key Relationships**: Established proper relationships between users and posts\n3. **Indexing Strategy**: Email uniqueness constraint for authentication\n4. **Timestamps**: Added created/updated timestamps for audit trail\n5. **Soft Dependencies**: Profile is optional, allowing flexible user onboarding\n\n**Performance Considerations:**\n- Email field indexed for fast login queries\n- Author relationship indexed for efficient post retrieval\n- Optional fields allow for gradual data collection\n\nThis schema supports scalability while maintaining data integrity and query performance."

erDiagramText ==
  (* erDiagram                          *) <<101,114,68,105,97,103,114,97,109,10>> \o
  (*     USER {                         *) <<32,32,32,32,85,83,69,82,32,123,10>> \o
  (*         string id PK               *) <<32,32,32,32,32,32,32,32,115,116,114,105,110,103,32,105,100,32,80,75,10>> \o
  (*         string email UK            *) <<32,32,32,32,32,32,32,32,115,116,114,105,110,103,32,101,109,97,105,108,32,85,75,10>> \o
  (*         string name                *) <<32,32,32,32,32,32,32,32,115,116,114,105,110,103,32,110,97,109,101,10>> \o
  (*         datetime created_at        *) <<32,32,32,32,32,32,32,32,100,97,116,101,116,105,109,101,32,99,114,101,97,116,101,100,95,97,116,10>> \o
  (*         datetime updated_at        *) <<32,32,32,32,32,32,32,32,100,97,116,101,116,105,109,101,32,117,112,100,97,116,101,100,95,97,116,10>> \o
  (*     }                              *) <<32,32,32,32,125,10>> \o
  (*                                    *) <<10>> \o
  (*     PROFILE {                      *) <<32,32,32,32,80,82,79,70,73,76,69,32,123,10>> \o
  (*         string id PK               *) <<32,32,32,32,32,32,32,32,115,116,114,105,110,103,32,105,100,32,80,75,10>> \o
  (*         string bio                 *) <<32,32,32,32,32,32,32,32,115,116,114,105,110,103,32,98,105,111,10>> \o
  (*         string avatar              *) <<32,32,32,32,32,32,32,32,115,116,114,105,110,103,32,97,118,97,116,97,114,10>> \o
  (*         string user_id FK          *) <<32,32,32,32,32,32,32,32,115,116,114,105,110,103,32,117,115,101,114,95,105,100,32,70,75,10>> \o
  (*     }                              *) <<32,32,32,32,125,10>> \o
  (*                                    *) <<10>> \o
  (*     POST {                         *) <<32,32,32,32,80,79,83,84,32,123,10>> \o
  (*         string id PK               *) <<32,32,32,32,32,32,32,32,115,116,114,105,110,103,32,105,100,32,80,75,10>> \o
  (*         string title               *) <<32,32,32,32,32,32,32,32,115,116,114,105,110,103,32,116,105,116,108,101,10>> \o
  (*         string content             *) <<32,32,32,32,32,32,32,32,115,116,114,105,110,103,32,99,111,110,116,101,110,116,10>> \o
  (*         boolean published          *) <<32,32,32,32,32,32,32,32,98,111,111,108,101,97,110,32,112,117,98,108,105,115,104,101,100,10>> \o
  (*         string author_id FK        *) <<32,32,32,32,32,32,32,32,115,116,114,105,110,103,32,97,117,116,104,111,114,95,105,100,32,70,75,10>> \o
  (*         datetime created_at        *) <<32,32,32,32,32,32,32,32,100,97,116,101,116,105,109,101,32,99,114,101,97,116,101,100,95,97,116,10>> \o
  (*         datetime updated_at        *) <<32,32,32,32,32,32,32,32,100,97,116,101,116,105,109,101,32,117,112,100,97,116,101,100,95,97,116,10>> \o
  (*     }                              *) <<32,32,32,32,125,10>> \o
  (*                                    *) <<10>> \o
  (*     USER ||--o{ POST : "creates"   *) <<32,32,32,32,85,83,69,82,32,124,124,45,45,111,123,32,80,79,83,84,32,58,32,34,99,114,101,97,116,101,115,34,10>> \o
  (*     USER ||--|| PROFILE : "has"    *) <<32,32,32,32,85,83,69,82,32,124,124,45,45,124,124,32,80,82,79,70,73,76,69,32,58,32,34,104,97,115,34,10>>

(* ------------------------------------------------------------------ *)
(* Text helpers: character codes, UTF-8, base64                        *)
(* ------------------------------------------------------------------ *)

\* 'data:'
DataScheme == <<100,97,116,97,58>>

\* 'data:text/plain;base64,'
DataUriPrefix == <<100,97,116,97,58,116,101,120,116,47,112,108,97,105,110,59,98,97,115,101,54,52,44>>

Comma == 44

PadChar == 61

\* A-Z a-z 0-9 + /
Base64Alphabet ==
  <<65,66,67,68,69,70,71,72,73,74,75,76,77,78,79,80,81,82,83,84,85,86,87,88,89,90,
    97,98,99,100,101,102,103,104,105,106,107,108,109,110,111,112,113,114,115,116,
    117,118,119,120,121,122,48,49,50,51,52,53,54,55,56,57,43,47>>

\* String.prototype.startsWith
StartsWith(s, p) ==
  /\ Len(s) >= Len(p)
  /\ \A i \in 1..Len(p) : s[i] = p[i]

\* The UTF-8 bytes of one code point of the Basic Multilingual Plane.
Utf8Char(c) ==
  IF c < 128 THEN <<c>>
  ELSE IF c < 2048 THEN <<192 + (c \div 64), 128 + (c % 64)>>
  ELSE <<224 + (c \div 4096), 128 + ((c \div 64) % 64), 128 + (c % 64)>>

\* The concatenation of pieces[lo], ..., pieces[hi].
RECURSIVE ConcatRange(_, _, _)
ConcatRange(pieces, lo, hi) ==
  IF lo > hi THEN <<>>
  ELSE IF lo = hi THEN pieces[lo]
  ELSE LET mid == (lo + hi) \div 2
       IN  ConcatRange(pieces, lo, mid) \o ConcatRange(pieces, mid + 1, hi)

\* Buffer.from(text): the UTF-8 bytes of a string.
BufferFrom(s) ==
  LET pieces == [i \in 1..Len(s) |-> Utf8Char(s[i])]
  IN  ConcatRange(pieces, 1, Len(s))

\* buffer.toString('base64'): each group of three bytes becomes four
\* alphabet characters; a last group of one or two bytes is padded with '='.
ToBase64(bytes) ==
  LET n == Len(bytes)
      byteAt(k) == IF k <= n THEN bytes[k] ELSE 0
      groups == (n + 2) \div 3
      group(g) ==
        LET w == byteAt(3 * g - 2) * 65536 + byteAt(3 * g - 1) * 256 + byteAt(3 * g)
        IN  << Base64Alphabet[(w \div 262144) + 1],
               Base64Alphabet[((w \div 4096) % 64) + 1],
               IF 3 * g - 1 > n THEN PadChar ELSE Base64Alphabet[((w \div 64) % 64) + 1],
               IF 3 * g > n THEN PadChar ELSE Base64Alphabet[(w % 64) + 1] >>
  IN  ConcatRange([g \in 1..groups |-> group(g)], 1, groups)

\* The value of each base64 character (padding counts as 0).
Base64Value ==
  [c \in 0..127 |->
     IF \E v \in 1..64 : Base64Alphabet[v] = c
       THEN (CHOOSE v \in 1..64 : Base64Alphabet[v] = c) - 1
       ELSE 0]

\* atob(text): the binary string of a base64 text, one character per byte;
\* each group of four characters gives three bytes, less the padding of
\* the last group.
Atob(s) ==
  LET m == Len(s)
      pad == IF m = 0 THEN 0
             ELSE IF s[m - 1] = PadChar THEN 2
             ELSE IF s[m] = PadChar THEN 1 ELSE 0
      word(g) == Base64Value[s[4 * g - 3]] * 262144 + Base64Value[s[4 * g - 2]] * 4096
                 + Base64Value[s[4 * g - 1]] * 64 + Base64Value[s[4 * g]]
      byteAt(k) ==
        LET w == word(((k - 1) \div 3) + 1)
            q == (k - 1) % 3
        IN  IF q = 0 THEN w \div 65536
            ELSE IF q = 1 THEN (w \div 256) % 256
            ELSE w % 256
  IN  [k \in 1..(3 * (m \div 4) - pad) |-> byteAt(k)]

\* text.split(',')[1]: the piece between the first comma and the next one.
SplitSecond(s) ==
  LET commas == {i \in 1..Len(s) : s[i] = Comma}
      Min(S) == CHOOSE x \in S : \A y \in S : x <= y
      first == Min(commas)
      later == {i \in commas : i > first}
      stop == IF later = {} THEN Len(s) + 1 ELSE Min(later)
  IN  SubSeq(s, first + 1, stop - 1)


(* ------------------------------------------------------------------ *)
(* Generation endpoint: handleGenerateSchema                           *)
(* ------------------------------------------------------------------ *)

InputTypes == {"react", "html", "json", "figma"}

OutputFormats == {"prisma", "sql", "mongodb", "firebase"}

DatabaseTypes == {"postgresql", "mysql", "mongodb", "firebase"}

\* Texts a caller may put in inputCode: the empty text, a piece of markup
\* and a design reference.
InputTexts == {"", "<div>x</div>", "https://www.figma.com/file/abc"}

\* The options object of a request.  The endpoint does not validate it, so
\* a caller may name an output format the mapping does not have.
OptionsObjects ==
  [outputFormat : OutputFormats \cup {"yaml"},
   databaseType : DatabaseTypes,
   suggestAPI : BOOLEAN,
   generateERD : BOOLEAN]

\* Request bodies (SchemaGenerationRequest as it arrives: inputCode and
\* options may be missing from the JSON object).
Requests ==
  [inputCode : InputTexts, inputType : InputTypes, options : OptionsObjects]
  \cup [inputType : InputTypes, options : OptionsObjects]
  \cup [inputCode : InputTexts, inputType : InputTypes]

\* The request bodies used when several requests are in progress at once.
ConcurrentRequests ==
  { [inputCode |-> "<div>x</div>", inputType |-> "html",
     options |-> [outputFormat |-> "sql", databaseType |-> "postgresql",
                  suggestAPI |-> TRUE, generateERD |-> TRUE]],
    [inputCode |-> "https://www.figma.com/file/abc", inputType |-> "figma",
     options |-> [outputFormat |-> "prisma", databaseType |-> "mysql",
                  suggestAPI |-> FALSE, generateERD |-> FALSE]],
    [inputCode |-> "<div>x</div>", inputType |-> "react",
     options |-> [outputFormat |-> "yaml", databaseType |-> "mongodb",
                  suggestAPI |-> TRUE, generateERD |-> FALSE]],
    [inputCode |-> "", inputType |-> "json",
     options |-> [outputFormat |-> "mongodb", databaseType |-> "mongodb",
                  suggestAPI |-> TRUE, generateERD |-> TRUE]],
    [inputCode |-> "<div>x</div>", inputType |-> "html"] }

Slots == 1..MaxReq

\* A diagram that follows the output format: document stores get no
\* relationship lines.
generateERDiagramByFormat(outputFormat, databaseType) ==
  IF outputFormat \in {"mongodb", "firebase"}
    THEN SubSeq(erDiagramText, 1, Len(erDiagramText) - 65)
    ELSE erDiagramText

\* generateERDiagram(outputFormat, databaseType): both parameters are unused.
generateERDiagram(outputFormat, databaseType) == erDiagramText

\* `data:text/plain;base64,${Buffer.from(erdDiagram).toString('base64')}`
\* (the buffer is built once, as a value, and then encoded)
EncodeDataUri(erdDiagram) ==
  CHOOSE uri \in {DataUriPrefix \o ToBase64(buffer) : buffer \in {BufferFrom(erdDiagram)}} : TRUE

\* The check as it would be if it tested only for an absent field.
InputCodeAbsentOnly(body) == "inputCode" \notin DOMAIN body

\* !inputCode of the destructured body: an absent field is undefined.
InputCodeMissing(body) ==
  \/ "inputCode" \notin DOMAIN body
  \/ body.inputCode = ""

\* res.status(400).json({ error: 'Input code is required' })
ValidationErrorResponse ==
  [status |-> 400, body |-> [error |-> "Input code is required"]]

\* res.status(500).json({ error: 'Failed to generate schema' })
InternalErrorResponse ==
  [status |-> 500, body |-> [error |-> "Failed to generate schema"]]

\* The handler as it would continue without the `return`.
AfterRejectFallThrough == "delay"

\* Where the handler continues after it has answered a request without
\* inputCode: the `return` ends it.
AfterReject == "done"

\* A lookup by the database type where that names a mapping key.
SchemaPartByDatabase(options) ==
  IF options.databaseType \in DOMAIN mockSchemas
    THEN [schema |-> mockSchemas[options.databaseType]]
    ELSE IF options.outputFormat \in DOMAIN mockSchemas
      THEN [schema |-> mockSchemas[options.outputFormat]]
      ELSE <<>>

\* const schema = mockSchemas[options.outputFormat]; a key the mapping does
\* not have gives undefined, and res.json leaves an undefined field out.
SchemaPart(options) ==
  IF options.outputFormat \in DOMAIN mockSchemas
    THEN [schema |-> mockSchemas[options.outputFormat]]
    ELSE <<>>

\* explanation: mockExplanation
ExplanationPart == [explanation |-> mockExplanation]

\* The route listing attached without looking at the flag.
RoutesPartAlways(options) == [apiRoutes |-> mockAPIRoutes]

\* if (options.suggestAPI) response.apiRoutes = mockAPIRoutes
RoutesPart(options) ==
  IF options.suggestAPI THEN [apiRoutes |-> mockAPIRoutes] ELSE <<>>

\* if (options.generateERD) response.erdImageUrl = data URI of the diagram
DiagramPart(options) ==
  IF options.generateERD
    THEN [erdImageUrl |->
            EncodeDataUri(generateERDiagram(options.outputFormat, options.databaseType))]
    ELSE <<>>

\* The JSON body of res.json(response).
SuccessBody(options) ==
  SchemaPart(options) @@ ExplanationPart @@ RoutesPart(options) @@ DiagramPart(options)

\* What the handler does after the delay for a request: the steps of
\* lines 741-756 it carries out.  Without an options object the first of
\* them throws.
GenerationSteps(body) ==
  IF "options" \notin DOMAIN body THEN {}
  ELSE {"lookup", "explanation"}
       \cup (IF body.options.suggestAPI THEN {"routes"} ELSE {})
       \cup (IF body.options.generateERD THEN {"diagram"} ELSE {})

\* The code after the delay: the response it sends.  Reading
\* options.outputFormat of an absent options object throws, and the catch
\* block answers 500.
Outcome(body) ==
  IF "options" \notin DOMAIN body
    THEN InternalErrorResponse
    ELSE [status |-> 200, body |-> SuccessBody(body.options)]

IdleHandler == [pc |-> "none", body |-> <<>>, did |-> {}, sent |-> <<>>]


(* ------------------------------------------------------------------ *)
(* Client: the Index page                                              *)
(* ------------------------------------------------------------------ *)

\* Texts the user may have in the code textarea (typed, or loaded from a
\* file by handleFileUpload's reader), and in the Figma URL input.
CodeTexts == {"", "<div>x</div>"}

FigmaUrls == {"", "https://www.figma.com/file/abc"}

\* useState<GeneratedResult | null>(null)
Null == <<>>

IdleCall == [pc |-> "none", response |-> Null]

\* What fetch can resolve with when the answer is not the endpoint's: a
\* page that is not JSON, and a result whose erdImageUrl is diagram source
\* as it stands.
OtherResponses ==
  { [status |-> 502, json |-> FALSE, data |-> Null],
    [status |-> 200, json |-> TRUE,
     data |-> [schema |-> mockSchemas.sql, erdImageUrl |-> erDiagramText]] }

\* The chart prop as it would be without the decoding.
ChartPropUndecoded(erdImageUrl) == erdImageUrl

\* The chart prop of MermaidDiagram:
\* erdImageUrl.startsWith('data:') ? atob(erdImageUrl.split(',')[1]) : erdImageUrl
ChartProp(erdImageUrl) ==
  IF StartsWith(erdImageUrl, DataScheme)
    THEN Atob(SplitSecond(erdImageUrl))
    ELSE erdImageUrl

\* The diagram panel: result?.erdImageUrl ? <MermaidDiagram chart=.../> : placeholder
RenderChart(res) ==
  IF "erdImageUrl" \in DOMAIN res /\ res.erdImageUrl # <<>>
    THEN ChartProp(res.erdImageUrl)
    ELSE <<>>


(* ------------------------------------------------------------------ *)
(* State                                                               *)
(* ------------------------------------------------------------------ *)

VARIABLES
  selectedInputType,  \* useState('react')
  inputCode,          \* useState('')
  figmaUrl,           \* useState('')
  outputFormat,       \* useState('prisma')
  databaseType,       \* useState('postgresql')
  suggestAPI,         \* useState(true)
  generateERD,        \* useState(true)
  showExplanation,    \* useState(false)
  isGenerating,       \* useState(false)
  result,             \* useState<GeneratedResult | null>(null)
  reading,            \* the texts of the files a FileReader is still reading
  chart,              \* the chart prop last rendered into MermaidDiagram
  call,               \* call[i]: the handleGenerate invocation using slot i
  edits,              \* how many times the user has changed an input or option
  srv                 \* srv[i]: the endpoint's handling of the request in slot i

uiVars == <<selectedInputType, inputCode, figmaUrl, outputFormat, databaseType,
            suggestAPI, generateERD, showExplanation, reading>>

clientVars == <<uiVars, isGenerating, result, chart, call, edits>>

vars == <<clientVars, srv>>

\* The button as it would be without the isGenerating test.
GenerateDisabledContentOnly == inputCode = "" /\ figmaUrl = ""

\* disabled={isGenerating || (!inputCode && !figmaUrl)}
GenerateDisabled == isGenerating \/ (inputCode = "" /\ figmaUrl = "")

\* The payload handleGenerate builds from the state of the render in which
\* the button was clicked.
\* The payload as it would be if inputCode were always the code buffer.
PayloadCodeBufferOnly ==
  [inputCode |-> inputCode,
   inputType |-> selectedInputType,
   options |-> [outputFormat |-> outputFormat,
                databaseType |-> databaseType,
                suggestAPI |-> suggestAPI,
                generateERD |-> generateERD]]

Payload ==
  [inputCode |-> IF selectedInputType = "figma" THEN figmaUrl ELSE inputCode,
   inputType |-> selectedInputType,
   options |-> [outputFormat |-> outputFormat,
                databaseType |-> databaseType,
                suggestAPI |-> suggestAPI,
                generateERD |-> generateERD]]

\* The slots no exchange is using.
FreeSlots == {i \in Slots : call[i].pc = "none" /\ srv[i].pc = "none"}

\* The handleGenerate invocations whose request has not settled.
Outstanding == {i \in Slots : call[i].pc # "none"}

(* ------------------------------------------------------------------ *)
(* Client steps                                                        *)
(* ------------------------------------------------------------------ *)

Edit ==
  /\ edits < MaxEdits
  /\ edits' = edits + 1
  /\ UNCHANGED <<isGenerating, result, chart, call, srv>>

\* Tabs onValueChange={setSelectedInputType}
SetSelectedInputType(t) ==
  /\ t # selectedInputType
  /\ selectedInputType' = t
  /\ Edit
  /\ UNCHANGED <<inputCode, figmaUrl, outputFormat, databaseType, suggestAPI,
                 generateERD, showExplanation, reading>>

\* handleFileUpload in the 'react' and 'html' tabs: a reader starts
\* reading the chosen file.  (uploadedFile, which the page sets here and
\* never reads, is left out.)
HandleFileUpload(s) ==
  /\ selectedInputType \in {"react", "html"}
  /\ Len(reading) < MaxReads
  /\ reading' = Append(reading, s)
  /\ Edit
  /\ UNCHANGED <<selectedInputType, inputCode, figmaUrl, outputFormat, databaseType,
                 suggestAPI, generateERD, showExplanation>>

\* reader.onload: setInputCode(the file's text), whatever tab is shown by
\* then.
ReaderOnload ==
  /\ reading # <<>>
  /\ inputCode' = Head(reading)
  /\ reading' = Tail(reading)
  /\ UNCHANGED <<selectedInputType, figmaUrl, outputFormat, databaseType, suggestAPI,
                 generateERD, showExplanation, isGenerating, result, chart, call,
                 edits, srv>>

\* Textarea onChange in the 'react', 'html' and 'json' tabs: setInputCode(text)
SetInputCode(s) ==
  /\ selectedInputType # "figma"
  /\ s # inputCode
  /\ inputCode' = s
  /\ Edit
  /\ UNCHANGED <<selectedInputType, figmaUrl, outputFormat, databaseType, suggestAPI,
                 generateERD, showExplanation, reading>>

\* Input onChange in the 'figma' tab: setFigmaUrl(text)
SetFigmaUrl(u) ==
  /\ selectedInputType = "figma"
  /\ u # figmaUrl
  /\ figmaUrl' = u
  /\ Edit
  /\ UNCHANGED <<selectedInputType, inputCode, outputFormat, databaseType, suggestAPI,
                 generateERD, showExplanation, reading>>

\* Select onValueChange={setOutputFormat}
SetOutputFormat(f) ==
  /\ f # outputFormat
  /\ outputFormat' = f
  /\ Edit
  /\ UNCHANGED <<selectedInputType, inputCode, figmaUrl, databaseType, suggestAPI,
                 generateERD, showExplanation, reading>>

\* Select onValueChange={setDatabaseType}
SetDatabaseType(d) ==
  /\ d # databaseType
  /\ databaseType' = d
  /\ Edit
  /\ UNCHANGED <<selectedInputType, inputCode, figmaUrl, outputFormat, suggestAPI,
                 generateERD, showExplanation, reading>>

\* Switch onCheckedChange={setSuggestAPI}
SetSuggestAPI ==
  /\ suggestAPI' = ~suggestAPI
  /\ Edit
  /\ UNCHANGED <<selectedInputType, inputCode, figmaUrl, outputFormat, databaseType,
                 generateERD, showExplanation, reading>>

\* Switch onCheckedChange={setGenerateERD}
SetGenerateERD ==
  /\ generateERD' = ~generateERD
  /\ Edit
  /\ UNCHANGED <<selectedInputType, inputCode, figmaUrl, outputFormat, databaseType,
                 suggestAPI, showExplanation, reading>>

\* Switch onCheckedChange={setShowExplanation}
SetShowExplanation ==
  /\ showExplanation' = ~showExplanation
  /\ Edit
  /\ UNCHANGED <<selectedInputType, inputCode, figmaUrl, outputFormat, databaseType,
                 suggestAPI, generateERD, reading>>

\* A click on the enabled Generate button: handleGenerate up to its first
\* await.  The request it posts is handled by the endpoint in slot i.
HandleGenerate(i) ==
  /\ ~GenerateDisabled
  /\ i \in FreeSlots
  /\ \A j \in FreeSlots : i <= j
  /\ isGenerating' = TRUE
  /\ call' = [call EXCEPT ![i] = [pc |-> "fetch", response |-> Null]]
  /\ srv' = [srv EXCEPT ![i] = [pc |-> "pending", body |-> Payload, did |-> {}, sent |-> <<>>]]
  /\ UNCHANGED <<uiVars, result, chart, edits>>

\* fetch resolves with the endpoint's response, which ends the exchange
\* in slot i.
FetchResolve(i) ==
  /\ call[i].pc = "fetch"
  /\ srv[i].pc = "done"
  /\ call' = [call EXCEPT ![i] = [pc |-> "json",
                                  response |-> [status |-> srv[i].sent[1].status,
                                                json |-> TRUE,
                                                data |-> srv[i].sent[1].body]]]
  /\ srv' = [srv EXCEPT ![i] = IdleHandler]
  /\ UNCHANGED <<uiVars, isGenerating, result, chart, edits>>

\* fetch resolves with a response that is not the endpoint's.  Whatever
\* the endpoint still does with the request reaches nobody: the handler
\* writes only its own locals, and the model stops following it.
FetchResolveOther(i, r) ==
  /\ call[i].pc = "fetch"
  /\ call' = [call EXCEPT ![i] = [pc |-> "json", response |-> r]]
  /\ srv' = [srv EXCEPT ![i] = IdleHandler]
  /\ UNCHANGED <<uiVars, isGenerating, result, chart, edits>>

\* fetch rejects (a network failure, at any point of the exchange): catch
\* logs, finally clears the flag.  The request is followed no further.
FetchReject(i) ==
  /\ call[i].pc = "fetch"
  /\ call' = [call EXCEPT ![i] = IdleCall]
  /\ srv' = [srv EXCEPT ![i] = IdleHandler]
  /\ isGenerating' = FALSE
  /\ UNCHANGED <<uiVars, result, chart, edits>>

\* response.json() resolves: setResult(data), then finally; the page
\* renders the new result.
JsonResolve(i) ==
  /\ call[i].pc = "json"
  /\ call[i].response.json
  /\ result' = call[i].response.data
  /\ chart' = RenderChart(call[i].response.data)
  /\ call' = [call EXCEPT ![i] = IdleCall]
  /\ isGenerating' = FALSE
  /\ UNCHANGED <<uiVars, edits, srv>>

\* The rejection as it would be handled without the finally block.
JsonRejectNoFinally(i) ==
  /\ call[i].pc = "json"
  /\ ~call[i].response.json
  /\ call' = [call EXCEPT ![i] = IdleCall]
  /\ UNCHANGED <<uiVars, isGenerating, result, chart, edits, srv>>

\* response.json() rejects (the body is not JSON): catch logs, finally
\* clears the flag.
JsonReject(i) ==
  /\ call[i].pc = "json"
  /\ ~call[i].response.json
  /\ call' = [call EXCEPT ![i] = IdleCall]
  /\ isGenerating' = FALSE
  /\ UNCHANGED <<uiVars, result, chart, edits, srv>>

(* ------------------------------------------------------------------ *)
(* Endpoint steps                                                      *)
(* ------------------------------------------------------------------ *)

\* A request of some other caller arrives in a free slot.
Accept(i, b) ==
  /\ srv[i].pc \in {"none", "done"}
  /\ srv' = [srv EXCEPT ![i] = [pc |-> "pending", body |-> b, did |-> {}, sent |-> <<>>]]
  /\ UNCHANGED clientVars

\* The body as it would be read from a variable shared by all invocations,
\* which holds the body of the request in the first slot.
RequestBodyShared(i) == srv[1].body

\* const { inputCode, inputType, options } = req.body: each invocation of
\* the handler reads the body of its own request.
RequestBody(i) == srv[i].body

\* The handler up to its suspension: the body is destructured and
\* inputCode is checked; a request without it is answered 400, any other
\* starts the 2000 ms timer and waits for it.
\* The validation as it would run were the delay a blocking wait: no
\* handler starts while a request is in its delay.
ValidateBlocked(i) ==
  /\ \A j \in Slots : srv[j].pc # "delay"
  /\ srv[i].pc = "pending"
  /\ IF InputCodeMissing(RequestBody(i))
       THEN srv' = [srv EXCEPT ![i].pc = AfterReject,
                               ![i].sent = Append(@, ValidationErrorResponse)]
       ELSE srv' = [srv EXCEPT ![i].pc = "delay", ![i].did = @ \cup {"wait"}]
  /\ UNCHANGED clientVars

Validate(i) ==
  /\ srv[i].pc = "pending"
  /\ IF InputCodeMissing(RequestBody(i))
       THEN srv' = [srv EXCEPT ![i].pc = AfterReject,
                               ![i].sent = Append(@, ValidationErrorResponse)]
       ELSE srv' = [srv EXCEPT ![i].pc = "delay", ![i].did = @ \cup {"wait"}]
  /\ UNCHANGED clientVars

\* The timer of request i fires and resolves the promise it awaits.
DelayElapse(i) ==
  /\ srv[i].pc = "delay"
  /\ srv' = [srv EXCEPT ![i].pc = "resume", ![i].did = @ \cup {"resumed"}]
  /\ UNCHANGED clientVars

\* The handler after the delay, to its end: the response is built and
\* sent, or the catch block answers 500.
Respond(i) ==
  /\ srv[i].pc = "resume"
  /\ srv' = [srv EXCEPT ![i].pc = "done",
                        ![i].did = @ \cup GenerationSteps(RequestBody(i)),
                        ![i].sent = Append(@, Outcome(RequestBody(i)))]
  /\ UNCHANGED clientVars

(* ------------------------------------------------------------------ *)
(* Specifications                                                      *)
(* ------------------------------------------------------------------ *)

Init ==
  /\ selectedInputType = "react"
  /\ inputCode = ""
  /\ figmaUrl = ""
  /\ outputFormat = "prisma"
  /\ databaseType = "postgresql"
  /\ suggestAPI = TRUE
  /\ generateERD = TRUE
  /\ showExplanation = FALSE
  /\ isGenerating = FALSE
  /\ result = Null
  /\ reading = <<>>
  /\ chart = <<>>
  /\ call = [i \in Slots |-> IdleCall]
  /\ edits = 0
  /\ srv = [i \in Slots |-> IdleHandler]

\* The page and the endpoint that serves it.
Next ==
  \/ \E t \in InputTypes : SetSelectedInputType(t)
  \/ \E s \in CodeTexts : HandleFileUpload(s)
  \/ ReaderOnload
  \/ \E s \in CodeTexts : SetInputCode(s)
  \/ \E u \in FigmaUrls : SetFigmaUrl(u)
  \/ \E f \in OutputFormats : SetOutputFormat(f)
  \/ \E d \in DatabaseTypes : SetDatabaseType(d)
  \/ SetSuggestAPI
  \/ SetGenerateERD
  \/ SetShowExplanation
  \/ \E i \in Slots : HandleGenerate(i)
  \/ \E i \in Slots : FetchResolve(i)
  \/ \E i \in Slots, r \in OtherResponses : FetchResolveOther(i, r)
  \/ \E i \in Slots : FetchReject(i)
  \/ \E i \in Slots : JsonResolve(i)
  \/ \E i \in Slots : JsonReject(i)
  \/ \E i \in Slots : Validate(i)
  \/ \E i \in Slots : DelayElapse(i)
  \/ \E i \in Slots : Respond(i)

Spec == Init /\ [][Next]_vars

\* The page with the scheduling its event loop gives: once fetch has
\* resolved, reading the body settles and the continuation of
\* handleGenerate runs.  Whether and when fetch itself settles is left to
\* the network.
\* The step that ends invocation i once its body promise has settled:
\* JsonResolve(i) and JsonReject(i) are the only steps of Next that take
\* call[i] from "json" to idle, and one of them is enabled whenever
\* call[i].pc = "json".
Settle == \E i \in Slots : call[i].pc = "json" /\ call' = [call EXCEPT ![i] = IdleCall]

Fairness == WF_call(Settle)

SpecFair == Spec /\ Fairness

\* The endpoint handling one request after another, of any shape.
NextHandler ==
  \/ \E b \in Requests : Accept(1, b)
  \/ Validate(1)
  \/ DelayElapse(1)
  \/ Respond(1)

SpecHandler == Init /\ [][NextHandler]_vars

\* The endpoint handling several requests at once.
NextServer ==
  \/ \E i \in Slots, b \in ConcurrentRequests : Accept(i, b)
  \/ \E i \in Slots : Validate(i)
  \/ \E i \in Slots : DelayElapse(i)
  \/ \E i \in Slots : Respond(i)

SpecServer == Init /\ [][NextServer]_vars

(* ------------------------------------------------------------------ *)
(* Properties                                                          *)
(* ------------------------------------------------------------------ *)

\* The content of the selected input kind is empty: the Figma URL for
\* 'figma', the code buffer for 'react', 'html' and 'json'.
SelectedContentEmpty ==
  IF selectedInputType = "figma" THEN figmaUrl = "" ELSE inputCode = ""

\* C1: whenever the content of the selected input kind is empty, the
\* Generate button is disabled, whatever the other buffer holds.
C1_DisabledWhenSelectedContentEmpty == SelectedContentEmpty => GenerateDisabled

\* C2: at most one handleGenerate invocation is outstanding, and while one
\* is, isGenerating is true and the button is disabled, so no second
\* invocation can begin.
C2_OneOutstandingSubmission ==
  /\ Cardinality(Outstanding) <= 1
  /\ Outstanding # {} => (isGenerating /\ GenerateDisabled)

\* A submission is outstanding, its response has arrived, and the user
\* has changed an input or option since the click.
C2_Witness ==
  \E i \in Slots :
    /\ call[i].pc = "json"
    /\ edits >= 2
    /\ ~(inputCode = "" /\ figmaUrl = "")

\* The request's inputCode is the empty string or absent.
LacksInputCode(body) ==
  IF "inputCode" \in DOMAIN body THEN body.inputCode = "" ELSE TRUE

\* The requests the endpoint has answered.
Answered == {i \in Slots : srv[i].pc = "done"}

\* C3: a request whose inputCode is empty or absent is answered 400 with
\* an error message and nothing else happens for it: the delay is never
\* entered and no generation step is carried out.
C3_MissingInputRejected ==
  \A i \in Slots :
    (srv[i].pc # "none" /\ LacksInputCode(srv[i].body)) =>
      /\ srv[i].pc \in {"pending", "done"}
      /\ srv[i].did = {}
      /\ srv[i].pc = "pending" => srv[i].sent = <<>>
      /\ srv[i].pc = "done" =>
           /\ Len(srv[i].sent) = 1
           /\ srv[i].sent[1].status = 400
           /\ DOMAIN srv[i].sent[1].body = {"error"}
           /\ srv[i].sent[1].body.error = "Input code is required"

\* An answered request with no inputCode field whose options ask for
\* routes and a diagram in a known format.
C3_Witness ==
  \E i \in Answered :
    /\ "inputCode" \notin DOMAIN srv[i].body
    /\ "options" \in DOMAIN srv[i].body
    /\ srv[i].body.options.outputFormat = "sql"
    /\ srv[i].body.options.suggestAPI
    /\ srv[i].body.options.generateERD
    /\ srv[i].sent[1].status = 400

\* The answered requests with inputCode and a known output format.
AnsweredKnownFormat ==
  {i \in Answered :
     /\ ~LacksInputCode(srv[i].body)
     /\ "options" \in DOMAIN srv[i].body
     /\ srv[i].body.options.outputFormat \in OutputFormats}

\* C4: for each of the four output formats, a request with inputCode is
\* answered 200 with exactly the canned text of its outputFormat as
\* schema, whatever its inputCode, inputType and databaseType.
C4_SchemaIsCannedText ==
  \A i \in AnsweredKnownFormat :
    /\ Len(srv[i].sent) = 1
    /\ srv[i].sent[1].status = 200
    /\ "schema" \in DOMAIN srv[i].sent[1].body
    /\ srv[i].sent[1].body.schema = mockSchemas[srv[i].body.options.outputFormat]

\* A Figma request for the MongoDB format on a MySQL database, answered
\* with the MongoDB text.
C4_Witness ==
  \E i \in AnsweredKnownFormat :
    /\ srv[i].body.inputType = "figma"
    /\ srv[i].body.inputCode = "https://www.figma.com/file/abc"
    /\ srv[i].body.options.outputFormat = "mongodb"
    /\ srv[i].body.options.databaseType = "mysql"
    /\ srv[i].sent[1].body.schema = mockSchemas.mongodb

\* The requests answered with status 200.
Answered200 == {i \in Answered : srv[i].sent # <<>> /\ srv[i].sent[1].status = 200}

\* C5: a 200 response has apiRoutes exactly when the request's
\* options.suggestAPI was true, and then it is the canned route listing.
C5_RoutesIffSuggestAPI ==
  \A i \in Answered200 :
    /\ "apiRoutes" \in DOMAIN srv[i].sent[1].body <=> srv[i].body.options.suggestAPI
    /\ "apiRoutes" \in DOMAIN srv[i].sent[1].body =>
         srv[i].sent[1].body.apiRoutes = mockAPIRoutes

\* A 200 response without apiRoutes for a request that asked for a
\* diagram but not for routes.
C5_Witness ==
  \E i \in Answered200 :
    /\ ~srv[i].body.options.suggestAPI
    /\ srv[i].body.options.generateERD
    /\ DOMAIN srv[i].sent[1].body = {"schema", "explanation", "erdImageUrl"}

\* The data URI of the one diagram text.
FixedDiagramUri == DataUriPrefix \o ToBase64(BufferFrom(erDiagramText))

\* C6: a 200 response has erdImageUrl exactly when the request's
\* options.generateERD was true, and then it is the data URI of one fixed
\* diagram text, whatever the outputFormat and databaseType.
C6_DiagramIffGenerateERD ==
  \A i \in Answered200 :
    /\ "erdImageUrl" \in DOMAIN srv[i].sent[1].body <=> srv[i].body.options.generateERD
    /\ "erdImageUrl" \in DOMAIN srv[i].sent[1].body =>
         srv[i].sent[1].body.erdImageUrl = FixedDiagramUri

\* A 200 response with the diagram for a Firebase request.
C6_Witness ==
  \E i \in Answered200 :
    /\ srv[i].body.options.generateERD
    /\ srv[i].body.options.outputFormat = "firebase"
    /\ srv[i].body.options.databaseType = "firebase"
    /\ srv[i].sent[1].body.erdImageUrl = FixedDiagramUri

\* C7: the chart handed to the renderer for an erdImageUrl the endpoint
\* produced is the diagram source text of generateERDiagram, and an
\* erdImageUrl that does not start with 'data:' is handed over as it is.
C7_ChartIsDiagramSource ==
  "erdImageUrl" \in DOMAIN result =>
    /\ result.erdImageUrl = FixedDiagramUri =>
         \A f \in OutputFormats, d \in DatabaseTypes : chart = generateERDiagram(f, d)
    /\ ~StartsWith(result.erdImageUrl, DataScheme) => chart = result.erdImageUrl

\* The page shows a result of the endpoint with its diagram decoded.
C7_Witness ==
  /\ "erdImageUrl" \in DOMAIN result
  /\ "explanation" \in DOMAIN result
  /\ result.erdImageUrl = FixedDiagramUri
  /\ chart = erDiagramText

\* C8: every 200 response carries a schema text and the fixed
\* explanation text.
C8_SchemaAndExplanationPresent ==
  \A i \in Answered200 :
    /\ "schema" \in DOMAIN srv[i].sent[1].body
    /\ "explanation" \in DOMAIN srv[i].sent[1].body
    /\ srv[i].sent[1].body.explanation = mockExplanation

\* C9: every request gets exactly one response, with status 200, 400 or
\* 500; a failure inside the handler (an absent options object) gives 500
\* with the generic message; a 400 or 500 response carries only the error.
C9_OneResponsePerRequest ==
  \A i \in Slots :
    /\ Len(srv[i].sent) <= 1
    /\ srv[i].pc = "done" <=> Len(srv[i].sent) = 1
    /\ \A k \in 1..Len(srv[i].sent) :
         /\ srv[i].sent[k].status \in {200, 400, 500}
         /\ srv[i].sent[k].status \in {400, 500} => DOMAIN srv[i].sent[k].body = {"error"}
    /\ (/\ srv[i].pc = "done"
        /\ ~LacksInputCode(srv[i].body)
        /\ "options" \notin DOMAIN srv[i].body) =>
         /\ srv[i].sent[1].status = 500
         /\ srv[i].sent[1].body.error = "Failed to generate schema"

\* A request with inputCode and no options object, answered 500 after its
\* delay.
C9_Witness ==
  \E i \in Answered :
    /\ "options" \notin DOMAIN srv[i].body
    /\ srv[i].body.inputCode = "<div>x</div>"
    /\ "resumed" \in srv[i].did
    /\ srv[i].sent = <<InternalErrorResponse>>

\* The response a request gets when it is the only one handled.
HandledAlone(body) ==
  IF LacksInputCode(body) THEN ValidationErrorResponse
  ELSE IF "options" \notin DOMAIN body THEN InternalErrorResponse
  ELSE [status |-> 200, body |-> SuccessBody(body.options)]

\* Every answered request has the response it gets when handled alone,
\* so equal requests have equal responses.
C10_SameAsAlone ==
  /\ \A i \in Answered : srv[i].sent = <<HandledAlone(srv[i].body)>>
  /\ \A i, j \in Answered : srv[i].body = srv[j].body => srv[i].sent = srv[j].sent

\* A step of the endpoint changes the handling of one request and nothing
\* else.
C10_StepIsLocal ==
  /\ \A i, j \in Slots : (srv'[i] # srv[i] /\ j # i) => srv'[j] = srv[j]
  /\ UNCHANGED clientVars

\* C10: concurrent requests never interfere: in every interleaving of the
\* validation, delay and response steps each request's response is the one
\* it gets when handled alone, and no step touches another request.
C10_NoInterference == [](C10_SameAsAlone) /\ [][C10_StepIsLocal]_vars

\* Two requests with the same body, handled at the same time and both
\* answered 200 with a diagram.
C10_Witness ==
  \E i, j \in Answered :
    /\ i # j
    /\ srv[i].body = srv[j].body
    /\ srv[i].sent[1].status = 200
    /\ "erdImageUrl" \in DOMAIN srv[i].sent[1].body
    /\ srv[i].sent = srv[j].sent

\* With no handleGenerate invocation outstanding the generating flag is
\* clear, and the button is disabled only for lack of content.
C11_ClearedWhenSettled ==
  Outstanding = {} =>
    /\ ~isGenerating
    /\ GenerateDisabled <=> (inputCode = "" /\ figmaUrl = "")

\* C11: the generating indicator is cleared whatever the outcome: it is
\* never set while no request is outstanding, and once fetch has resolved
\* (with a 200, 400 or 500 response, or a body that is not JSON) the
\* invocation ends and the flag is cleared; a rejected fetch clears it in
\* the same step.
C11_IndicatorCleared ==
  /\ [](C11_ClearedWhenSettled)
  /\ (\E i \in Slots : call[i].pc = "json") ~> (Outstanding = {} /\ ~isGenerating)

\* A submission has ended with the endpoint's 400 response: its body was
\* read and stored, nothing is outstanding, the flag is clear and the
\* button can be clicked again.
C11_Witness ==
  /\ Outstanding = {}
  /\ ~isGenerating
  /\ ~GenerateDisabled
  /\ result = ValidationErrorResponse.body

\* A submission fails on the client: fetch rejects, or the body of the
\* response is not JSON.
FailedSubmission == \E i \in Slots : FetchReject(i) \/ JsonReject(i)

\* C12: after a submission that fails (a network failure or a response that
\* is not JSON) the client's result is unset and no schema, diagram or
\* explanation is displayed, whatever submissions came before.
C12_FailureLeavesResultUnset ==
  [][FailedSubmission => (result' = Null /\ chart' = <<>>)]_vars

\* Request i has been answered 200.
Sent200(i) == \E k \in 1..Len(srv[i].sent) : srv[i].sent[k].status = 200

\* Whatever step request j is waiting for can be taken.
CanProceed(j) ==
  /\ srv[j].pc = "pending" => ENABLED Validate(j)
  /\ srv[j].pc = "delay" => ENABLED DelayElapse(j)
  /\ srv[j].pc = "resume" => ENABLED Respond(j)

\* C13: a 200 response is sent only after the request's own delay has
\* elapsed, and while one request is suspended in its delay every other
\* request can still be validated, delayed and answered.
C13_DelayIsOwnAndIndependent ==
  /\ \A i \in Slots : Sent200(i) => {"wait", "resumed"} \subseteq srv[i].did
  /\ \A i \in Slots : srv[i].pc \in {"delay", "resume"} => ~Sent200(i)
  /\ \A i, j \in Slots :
       (i # j /\ srv[i].pc = "delay") => CanProceed(j)

\* Request 1 is still suspended in its delay while request 2, which
\* arrived after it, has gone through its own delay and been answered 200.
C13_Witness ==
  /\ srv[1].pc = "delay"
  /\ srv[2].pc = "done"
  /\ Sent200(2)
  /\ "resumed" \in srv[2].did
  /\ "resumed" \notin srv[1].did

\* The answered requests that have an inputCode and name an output
\* format the mapping does not have.
AnsweredUnknownFormat ==
  {i \in Answered : /\ ~LacksInputCode(srv[i].body)
                    /\ "options" \in DOMAIN srv[i].body
                    /\ srv[i].body.options.outputFormat \notin OutputFormats}

\* C14: a request with a non-empty inputCode whose options.outputFormat is
\* not one of the four known formats is answered with the validation
\* error, status 400, and never with 200.
C14_UnknownFormatRejected ==
  \A i \in AnsweredUnknownFormat :
    /\ srv[i].sent[1].status = 400
    /\ \A k \in 1..Len(srv[i].sent) : srv[i].sent[k].status # 200

\* The click that starts invocation i posts the inputs and options as
\* they are at the click.
C15_PayloadAtClick(i) ==
  (call[i].pc = "none" /\ call'[i].pc = "fetch") =>
    /\ srv'[i].pc = "pending"
    /\ srv'[i].body.inputCode =
         (IF selectedInputType = "figma" THEN figmaUrl ELSE inputCode)
    /\ srv'[i].body.inputType = selectedInputType
    /\ srv'[i].body.options =
         [outputFormat |-> outputFormat, databaseType |-> databaseType,
          suggestAPI |-> suggestAPI, generateERD |-> generateERD]

\* While invocation i awaits its fetch no step changes the request, and
\* none changes a response once it is sent.
C15_FixedInFlight(i) ==
  (call[i].pc = "fetch" /\ call'[i].pc = "fetch") =>
    /\ srv'[i].body = srv[i].body
    /\ srv[i].sent # <<>> => srv'[i].sent = srv[i].sent

\* The endpoint's answer to a posted request with a non-empty inputCode:
\* 200 with the schema of the output format the request names.
C15_Answered200 ==
  \A i \in Slots :
    (call[i].pc = "fetch" /\ srv[i].pc = "done" /\ srv[i].body.inputCode # "") =>
      /\ Len(srv[i].sent) = 1
      /\ srv[i].sent[1].status = 200
      /\ "schema" \in DOMAIN srv[i].sent[1].body
      /\ srv[i].sent[1].body.schema = mockSchemas[srv[i].body.options.outputFormat]

\* The endpoint's answer is what fetch resolves with, and the body read
\* from a response is what becomes result.
C15_Stored(i) ==
  /\ FetchResolve(i) =>
       /\ call'[i].response.status = srv[i].sent[1].status
       /\ call'[i].response.data = srv[i].sent[1].body
  /\ JsonResolve(i) => result' = call[i].response.data

\* C15: end to end, the request is fixed at the click (inputCode is
\* figmaUrl when 'figma' is selected and the code buffer otherwise, with
\* the options held at the click); edits made while it is in flight
\* change neither the request nor the response; a request with a
\* non-empty inputCode is answered 200 with the schema of the output
\* format selected at the click, and that answer is what the client
\* stores as result.
C15_EndToEnd ==
  /\ [](C15_Answered200)
  /\ [][\A i \in Slots : /\ C15_PayloadAtClick(i)
                          /\ C15_FixedInFlight(i)
                          /\ C15_Stored(i)]_vars

\* The endpoint has answered 200 with the Prisma schema a request asked
\* for at the click, 'figma' being selected then, while the output format
\* shown on the page has since been changed.
C15_Witness ==
  /\ call[1].pc = "fetch"
  /\ srv[1].pc = "done"
  /\ srv[1].body.inputType = "figma"
  /\ srv[1].body.inputCode = "https://www.figma.com/file/abc"
  /\ srv[1].body.options.outputFormat = "prisma"
  /\ srv[1].sent[1].status = 200
  /\ srv[1].sent[1].body.schema = mockSchemas.prisma
  /\ outputFormat # "prisma"

====
